---- MODULE Spec2Model ----
(***************************************************************************)
(* A model of EventCalendar (src/event_calendar.py): a grid indexed by     *)
(* (time slot, room) whose cells are Python lists of event dictionaries,   *)
(* and the operations find_event, check_overlap, add_event, remove_event,   *)
(* edit_event and copy_event.                                              *)
(* Time is counted in slots of one minute from the calendar's first index  *)
(* entry: slot 0 is start_datetime, slot MaxSlot is start_datetime +       *)
(* num_days, the last entry of the (inclusive) pd.date_range.              *)
(***************************************************************************)
EXTENDS Integers, Sequences, FiniteSets, TLC

\* ------------------------------------------------------------------ bounds
\* Index of the last slot of the grid (the grid has MaxSlot + 1 slots).
MaxSlot == 2
\* Longest duration, in slots, a caller passes.
MaxDur == 2
\* Number of calls made on one calendar.
MaxOps == 3

\* ------------------------------------------------------------------ values
Rooms == {"R1", "R2"}
Names == {"X", "Y"}

\* The calendar's index: pd.date_range(start, end, freq) holds both ends.
Slots == 0 .. MaxSlot

\* Datetimes a caller passes: one before the index, the index, one after it.
Times == -1 .. (MaxSlot + 1)
Durations == 0 .. MaxDur

\* An optional argument: <<>> is Python's None, <<v>> a given value.
None == << >>
Some(v) == << v >>
Opt(S) == {None} \cup {Some(v) : v \in S}

\* The event dictionary of lines 152, 247 and 308.
Event(name, start, end) ==
    [event_name |-> name, start_time |-> start, end_time |-> end]

\* How a call ends: it returns ("ok"; "conflict" is copy_event's return at
\* line 305, after the warning) or raises (KeyError from DataFrame.at, or a
\* ValueError with one of the three messages of the source).
Raises == {"KeyError", "NotFound", "Overlap", "OutOfRange"}
Returns == {"ok", "conflict"}

VARIABLES
    calendar,   \* self.calendar: [slot -> [room -> sequence of events]]
    before,     \* self.calendar as it was when the last call began
    last,       \* the last call: its name, its arguments and how it ended
    nops        \* number of calls made so far

vars == << calendar, before, last, nops >>

\* ------------------------------------------------------------- __init__
EmptyCalendar == [s \in Slots |-> [r \in Rooms |-> << >>]]

\* ------------------------------------------------------------- helpers
\* What a call leaves: the calendar, how it ended, and the room and the event
\* dictionary it had computed by then (<<>> when it had not).
Result(cal, outcome, room, event) ==
    [calendar |-> cal, outcome |-> outcome, room |-> room, event |-> event]

\* A range that keeps its end: pd.date_range(start=start, end=end).
time_slots_inclusive(start, end) == start .. end

\* pd.date_range(start=start, end=end - timedelta(minutes=1), freq='1T'):
\* the slots start, start+1, ..., end-1 (none when end <= start).
time_slots(start, end) == start .. (end - 1)

\* The test of a check loop on one cell. add_event and copy_event test the
\* list itself (ignore = None: any event blocks); edit_event tests
\* any(e for e in cell if e['event_name'] != original_event_name).
Blocks(cal, t, room, ignore) ==
    \E i \in 1 .. Len(cal[t][room]) :
        ignore = None \/ cal[t][room][i].event_name # ignore[1]

\* A check loop that never finds a cell occupied.
ScanOutcomeBlind(cal, slots, room, ignore, hit) ==
    IF \E t \in slots : t \notin Slots THEN "KeyError" ELSE "ok"

\* A check loop: it reads self.calendar.at[time_slot, room] slot by slot, in
\* order. The first slot that is not in the index raises KeyError; the first
\* that blocks ends the loop with `hit`.
ScanOutcome(cal, slots, room, ignore, hit) ==
    LET bad == {t \in slots : t \notin Slots \/ Blocks(cal, t, room, ignore)}
        first == CHOOSE t \in bad : \A u \in bad : t <= u
    IN IF bad = {} THEN "ok"
       ELSE IF first \notin Slots THEN "KeyError"
       ELSE hit

\* A write loop that stops after its first slot.
SetSlotsFirstOnly(cal, slots, room, event) ==
    [s \in Slots |-> [r \in Rooms |->
        IF s \in slots /\ r = room /\ (\A u \in slots : s <= u)
        THEN << event >> ELSE cal[s][r]]]

\* A write loop over pd.date_range(start, end): it also writes the slot at
\* the event's end_time.
SetSlotsThroughEnd(cal, slots, room, event) ==
    [s \in Slots |-> [r \in Rooms |->
        IF (s \in slots \/ s = event.end_time) /\ r = room
        THEN << event >> ELSE cal[s][r]]]

\* A write loop that assigns the whole row: self.calendar.loc[time_slot].
SetSlotsRow(cal, slots, room, event) ==
    [s \in Slots |-> [r \in Rooms |->
        IF s \in slots THEN << event >> ELSE cal[s][r]]]

\* for time_slot in time_slots: self.calendar.at[time_slot, room] = [event]
SetSlots(cal, slots, room, event) ==
    [s \in Slots |-> [r \in Rooms |->
        IF s \in slots /\ r = room THEN << event >> ELSE cal[s][r]]]

\* for time_slot in time_slots: self.calendar.at[time_slot, room].append(event)
AppendSlots(cal, slots, room, event) ==
    [s \in Slots |-> [r \in Rooms |->
        IF s \in slots /\ r = room THEN Append(cal[s][r], event) ELSE cal[s][r]]]

\* ------------------------------------------------------------- find_event
\* find_event that returns the first event of the cell, whatever its name.
find_event_any(cal, event_datetime, room, event_name) ==
    IF cal[event_datetime][room] = << >> THEN None
    ELSE Some(cal[event_datetime][room][1])

\* find_event that also compares the datetime with the event's start_time.
find_event_at_start(cal, event_datetime, room, event_name) ==
    LET events == cal[event_datetime][room]
        idx == {i \in 1 .. Len(events) :
                    /\ events[i].event_name = event_name
                    /\ events[i].start_time = event_datetime}
    IN IF idx = {} THEN None
       ELSE Some(events[CHOOSE i \in idx : \A j \in idx : i <= j])

\* The first event of the cell with the given name, as <<event>>; <<>> for
\* (None, -1). The caller has checked that the slot is in the index.
find_event(cal, event_datetime, room, event_name) ==
    LET events == cal[event_datetime][room]
        idx == {i \in 1 .. Len(events) : events[i].event_name = event_name}
    IN IF idx = {} THEN None
       ELSE Some(events[CHOOSE i \in idx : \A j \in idx : i <= j])

\* ------------------------------------------------------------- check_overlap
\* check_overlap over pd.date_range(start, end - 1 minute): the slot at
\* end_datetime is not read.
check_overlap_half_open(cal, room, start_datetime, end_datetime) ==
    Result(cal, ScanOutcome(cal, start_datetime .. (end_datetime - 1), room,
                            None, "Overlap"), room, None)

\* time_slots = pd.date_range(start=start_datetime, end=end_datetime): both
\* ends are read. Any event in a cell raises; there is no name to pass over.
check_overlap(cal, room, start_datetime, end_datetime) ==
    Result(cal, ScanOutcome(cal, start_datetime .. end_datetime, room,
                            None, "Overlap"), room, None)

\* ------------------------------------------------------------- add_event
\* add_event with one loop that checks and writes slot by slot: the slots
\* before the first occupied one are written before the error is raised.
add_event_interleaved(cal, room, start_datetime, event_name, duration_minutes) ==
    LET end_datetime == start_datetime + duration_minutes
        event == Event(event_name, start_datetime, end_datetime)
        slots == time_slots(start_datetime, end_datetime)
        scan == ScanOutcome(cal, slots, room, None, "Overlap")
        bad == {t \in slots : t \notin Slots \/ Blocks(cal, t, room, None)}
        done == {t \in slots : \A u \in bad : t < u}
    IN Result(SetSlots(cal, done, room, event), scan, room, Some(event))

\* add_event whose check loop also reads the cell at end_datetime.
add_event_end_checked(cal, room, start_datetime, event_name, duration_minutes) ==
    LET end_datetime == start_datetime + duration_minutes
        event == Event(event_name, start_datetime, end_datetime)
        slots == time_slots(start_datetime, end_datetime)
        scan == ScanOutcome(cal, slots \cup {end_datetime}, room, None,
                            "Overlap")
    IN IF scan # "ok" THEN Result(cal, scan, room, Some(event))
       ELSE Result(SetSlots(cal, slots, room, event), "ok", room, Some(event))

\* add_event that tests the cell at start_datetime before its loop.
add_event_start_checked(cal, room, start_datetime, event_name, duration_minutes) ==
    LET end_datetime == start_datetime + duration_minutes
        event == Event(event_name, start_datetime, end_datetime)
        slots == time_slots(start_datetime, end_datetime)
        scan == ScanOutcome(cal, slots \cup {start_datetime}, room, None,
                            "Overlap")
    IN IF scan # "ok" THEN Result(cal, scan, room, Some(event))
       ELSE Result(SetSlots(cal, slots, room, event), "ok", room, Some(event))

add_event(cal, room, start_datetime, event_name, duration_minutes) ==
    LET end_datetime == start_datetime + duration_minutes
        event == Event(event_name, start_datetime, end_datetime)
        slots == time_slots(start_datetime, end_datetime)
        scan == ScanOutcome(cal, slots, room, None, "Overlap")
    IN IF scan # "ok" THEN Result(cal, scan, room, Some(event))
       ELSE Result(SetSlots(cal, slots, room, event), "ok", room, Some(event))

\* ------------------------------------------------------------- remove_event
\* remove_event that empties the cell without comparing names.
remove_event_any(cal, room, date, event_name) ==
    IF date \notin Slots THEN Result(cal, "KeyError", room, None)
    ELSE Result([cal EXCEPT ![date][room] = << >>], "ok", room, None)

remove_event(cal, room, date, event_name) ==
    IF date \notin Slots THEN Result(cal, "KeyError", room, None)
    ELSE LET events == cal[date][room]
             filtered_events ==
                 SelectSeq(events, LAMBDA e : e.event_name # event_name)
         IN Result([cal EXCEPT ![date][room] = filtered_events], "ok", room, None)

\* ------------------------------------------------------------- edit_event
edit_event(cal, original_datetime, original_room, original_event_name, new_room, new_start_datetime, new_event_name, new_duration_minutes) ==
    IF original_datetime \notin Slots
    THEN Result(cal, "KeyError", original_room, None)
    ELSE
    LET found == find_event(cal, original_datetime, original_room,
                            original_event_name)
    IN IF found = None THEN Result(cal, "NotFound", original_room, None)
       ELSE
       LET original_event == found[1]
           removed == remove_event(cal, original_room, original_datetime,
                                   original_event_name).calendar
           room == IF new_room = None THEN original_room ELSE new_room[1]
           start == IF new_start_datetime = None THEN original_datetime
                    ELSE new_start_datetime[1]
           name == IF new_event_name = None THEN original_event_name
                   ELSE new_event_name[1]
           duration == IF new_duration_minutes = None
                       THEN original_event.end_time - original_event.start_time
                       ELSE new_duration_minutes[1]
           end_datetime == start + duration
           slots == time_slots(start, end_datetime)
           scan == ScanOutcome(removed, slots, room,
                               Some(original_event_name), "Overlap")
           new_event == Event(name, start, end_datetime)
       IN IF scan # "ok" THEN Result(removed, scan, room, Some(new_event))
          ELSE Result(SetSlots(removed, slots, room, new_event), "ok", room,
                      Some(new_event))

\* ------------------------------------------------------------- copy_event
\* copy_event that moves the event: the original is taken out of its cell.
copy_event_as_move(cal, original_datetime, original_room, event_name, new_room, new_start_datetime) ==
    edit_event(cal, original_datetime, original_room, event_name, new_room, new_start_datetime, None, None)

copy_event(cal, original_datetime, original_room, event_name, new_room, new_start_datetime) ==
    \* `None not in self.calendar.index` is true: a call without a new start
    \* raises here as well.
    IF new_start_datetime = None \/ new_start_datetime[1] \notin Slots
    THEN Result(cal, "OutOfRange", original_room, None)
    ELSE IF original_datetime \notin Slots
    THEN Result(cal, "KeyError", original_room, None)
    ELSE
    LET found == find_event(cal, original_datetime, original_room, event_name)
    IN IF found = None THEN Result(cal, "NotFound", original_room, None)
       ELSE
       LET original_event == found[1]
           room == IF new_room = None THEN original_room ELSE new_room[1]
           start == new_start_datetime[1]
           original_duration ==
               original_event.end_time - original_event.start_time
           new_end_datetime == start + original_duration
           slots == time_slots(start, new_end_datetime)
           scan == ScanOutcome(cal, slots, room, None, "conflict")
           new_event == Event(event_name, start, new_end_datetime)
       IN IF scan # "ok" THEN Result(cal, scan, room, Some(new_event))
          ELSE Result(AppendSlots(cal, slots, room, new_event), "ok", room,
                      Some(new_event))

\* ------------------------------------------------------------- the calls
\* One call: `last` records its arguments (slot, room, name: the cell and name
\* it is made on; new_room, new_start, new_name, duration: the rest, <<>> for
\* an argument left out), how it ended, and the room and event it computed.
Call(op, slot, room, name, new_room, new_start, new_name, duration, result) ==
    /\ nops' = nops + 1
    /\ before' = calendar
    /\ calendar' = result.calendar
    /\ last' = [op |-> op, outcome |-> result.outcome, slot |-> slot,
                room |-> room, name |-> name, new_room |-> new_room,
                new_start |-> new_start, new_name |-> new_name,
                duration |-> duration,
                target |-> result.room, event |-> result.event]

Init ==
    /\ calendar = EmptyCalendar
    /\ before = EmptyCalendar
    /\ nops = 0
    /\ last = [op |-> "init", outcome |-> "ok", slot |-> 0, room |-> "R1",
               name |-> "X", new_room |-> None, new_start |-> None,
               new_name |-> None, duration |-> None,
               target |-> "R1", event |-> None]

\* find_event called on its own: self.calendar.at raises KeyError for a
\* datetime that is not in the index; the call returns the event in
\* last.event (<<>> for (None, -1)).
FindEvent ==
    /\ nops < MaxOps
    /\ \E slot \in Times, room \in Rooms, name \in Names :
        Call("find", slot, room, name, None, None, None, None,
             IF slot \in Slots
             THEN Result(calendar, "ok", room,
                         find_event(calendar, slot, room, name))
             ELSE Result(calendar, "KeyError", room, None))

\* check_overlap(room, start, end): last.slot is start_datetime and
\* last.new_start is end_datetime.
CheckOverlap ==
    /\ nops < MaxOps
    /\ \E room \in Rooms, start \in Times, end \in Times :
        Call("check", start, room, "X", None, Some(end), None, None,
             check_overlap(calendar, room, start, end))

AddEvent ==
    /\ nops < MaxOps
    /\ \E room \in Rooms, start \in Times, name \in Names, d \in Durations :
        Call("add", start, room, name, None, None, None, Some(d),
             add_event(calendar, room, start, name, d))

RemoveEvent ==
    /\ nops < MaxOps
    /\ \E room \in Rooms, date \in Times, name \in Names :
        Call("remove", date, room, name, None, None, None, None,
             remove_event(calendar, room, date, name))

\* The optional arguments a call is made with. edit_event reads its four only
\* once it has found the original event (lines 221 to 237): a call that
\* raises before that is made with the defaults. copy_event is called with or
\* without a new room whenever its source cell holds the event.
OptIf(read, S) == IF read THEN Opt(S) ELSE {None}

Located(slot, room, name) ==
    slot \in Slots /\ find_event(calendar, slot, room, name) # None

EditEvent ==
    /\ nops < MaxOps
    /\ \E slot \in Times, room \in Rooms, name \in Names :
        LET read == Located(slot, room, name)
        IN \E new_room \in OptIf(read, Rooms), new_start \in OptIf(read, Times),
              new_name \in OptIf(read, Names), d \in OptIf(read, Durations) :
            Call("edit", slot, room, name, new_room, new_start, new_name, d,
                 edit_event(calendar, slot, room, name,
                            new_room, new_start, new_name, d))

CopyEvent ==
    /\ nops < MaxOps
    /\ \E slot \in Times, room \in Rooms, name \in Names,
          new_start \in Opt(Times) :
        LET read == Located(slot, room, name)
        IN \E new_room \in OptIf(read, Rooms) :
            Call("copy", slot, room, name, new_room, new_start, None, None,
                 copy_event(calendar, slot, room, name, new_room, new_start))

Next ==
    \/ FindEvent \/ CheckOverlap
    \/ AddEvent \/ RemoveEvent \/ EditEvent \/ CopyEvent

Spec == Init /\ [][Next]_vars

\* ------------------------------------------------------------- the claims
\* Vocabulary of the claims, over the calendar before and after the last call.
EventsAt(cal, s, r) == {cal[s][r][i] : i \in 1 .. Len(cal[s][r])}
Holds(cal, s, r, e) == e \in EventsAt(cal, s, r)
Span(e) == e.start_time .. (e.end_time - 1)

\* The events the last call was made on: those of cell (last.slot, last.room)
\* that bear last.name, before the call.
LocatedEvents ==
    IF last.slot \in Slots
    THEN {e \in EventsAt(before, last.slot, last.room) : e.event_name = last.name}
    ELSE {}
Located1 == CHOOSE e \in LocatedEvents : TRUE

\* The range add_event was asked to cover.
AddSpan == last.slot .. (last.slot + last.duration[1] - 1)

\* The event the last call computed, its range and its room.
LastEvent == last.event[1]
Wrote ==
    /\ last.op \in {"add", "edit", "copy"}
    /\ last.outcome = "ok"
    /\ last.event # None
    /\ LastEvent.end_time > LastEvent.start_time

\* C1. No-overlap invariant: after any sequence of add_event, remove_event,
\* edit_event and copy_event calls on a fresh calendar, every (slot, room)
\* cell holds at most one event.
C1_NoOverlap ==
    \A s \in Slots, r \in Rooms : Len(calendar[s][r]) <= 1

\* A successful edit_event has written over a cell that held an event (one of
\* the original's name, which its check lets pass).
C1_Witness ==
    /\ last.op = "edit" /\ last.outcome = "ok"
    /\ \E s \in Slots :
        /\ before[s][last.target] # << >>
        /\ (s # last.slot \/ last.target # last.room)
        /\ calendar[s][last.target] = << LastEvent >>
        /\ calendar[s][last.target] # before[s][last.target]

\* C2. Coverage consistency: in every reachable state, if a cell (s, room)
\* holds an event E then every slot of [E.start, E.end) in that room holds a
\* payload equal to E.
C2_CoverageConsistency ==
    \A s \in Slots, r \in Rooms :
        \A e \in EventsAt(calendar, s, r) :
            \A t \in Span(e) : t \in Slots /\ calendar[t][r] = << e >>

\* C3. Atomicity of add: an add_event whose range [start, start + duration)
\* has an occupied slot in its room raises an error and leaves every cell of
\* the grid as it was.
C3_AddAtomic ==
    (/\ last.op = "add"
     /\ \E s \in AddSpan \cap Slots : before[s][last.room] # << >>)
    => (last.outcome \in Raises /\ calendar = before)

\* A rejected add_event whose first slot was free and a later one occupied.
C3_Witness ==
    /\ last.op = "add" /\ last.outcome \in Raises
    /\ last.slot \in Slots /\ before[last.slot][last.room] = << >>
    /\ \E s \in AddSpan \cap Slots : before[s][last.room] # << >>
    /\ \E s \in Slots : before[s][last.room] # << >>
                        /\ Cardinality(Span(before[s][last.room][1])) >= 2

\* C4. Edit conflict restores the original: when edit_event has located its
\* event and the new range in the new room has a slot held by an event of
\* another name, the call raises an error and the grid is as before the call.
C4_EditConflictRestores ==
    (/\ last.op = "edit"
     /\ LocatedEvents # {}
     /\ last.event # None
     /\ \E s \in Span(LastEvent) \cap Slots :
            \E e \in EventsAt(before, s, last.target) :
                e.event_name # last.name)
    => (last.outcome \in Raises /\ calendar = before)

\* C5. Remove clears the whole event: after remove_event on a cell that holds
\* an event E of the given name, no slot of [E.start, E.end) in that room
\* holds E.
C5_RemoveClearsWhole ==
    (last.op = "remove" /\ LocatedEvents # {})
    => \A e \in LocatedEvents :
           \A t \in Span(e) \cap Slots : ~Holds(calendar, t, last.room, e)

\* C6. Copy conflict is an error and is read-only: when copy_event has located
\* its source and a slot of the target range in the target room is occupied,
\* it raises the overlap error and every cell of the grid is unchanged.
C6_CopyConflictRaises ==
    (/\ last.op = "copy"
     /\ LocatedEvents # {}
     /\ last.event # None
     /\ \E s \in Span(LastEvent) \cap Slots : before[s][last.target] # << >>)
    => (last.outcome = "Overlap" /\ calendar = before)

\* C7. An edit is a move: after a successful edit_event of E, no slot of
\* [E.start, E.end) that lies outside the new range, or in another room than
\* the new one, still holds the original E.
C7_EditIsMove ==
    (last.op = "edit" /\ last.outcome = "ok" /\ LocatedEvents # {})
    => \A e \in LocatedEvents :
           \A t \in Span(e) \cap Slots :
               (last.target # last.room \/ t \notin Span(LastEvent))
               => ~Holds(calendar, t, last.room, e)

C9_OutOfRangeRejected ==
    LET start == IF last.op = "add" \/ last.new_start = None THEN last.slot
                 ELSE last.new_start[1]
        reach == IF last.op = "add" THEN AddSpan
                 ELSE IF last.event # None THEN Span(LastEvent) ELSE {}
    IN (/\ last.op \in {"add", "copy"}
        /\ (last.op = "copy" => last.new_start # None)
        /\ start \notin Slots \/ \E t \in reach : t \notin Slots)
       => (last.outcome \in Raises /\ calendar = before)

\* C10. Copy is non-destructive and faithful: after a successful copy_event of
\* X, the cell it was located in and every cell of X's range that held X
\* still hold X, and every slot of [newStart, newStart + (X.end - X.start))
\* in the target room holds an event of X's name that starts at newStart and
\* lasts as long as X.
C10_CopyFaithful ==
    (last.op = "copy" /\ last.outcome = "ok") =>
        /\ LocatedEvents # {}
        /\ LET x == Located1
               d == x.end_time - x.start_time
               ns == IF last.new_start = None THEN x.start_time
                     ELSE last.new_start[1]
               tr == IF last.new_room = None THEN last.room
                     ELSE last.new_room[1]
           IN /\ calendar[last.slot][last.room] = << x >>
              /\ \A t \in Span(x) \cap Slots :
                     before[t][last.room] = << x >>
                         => calendar[t][last.room] = << x >>
              /\ \A t \in ns .. (ns + d - 1) :
                     /\ t \in Slots
                     /\ calendar[t][tr] = << Event(x.event_name, ns, ns + d) >>

\* A successful copy_event of an event of two slots, located in its second
\* slot, into the other room.
C10_Witness ==
    /\ last.op = "copy" /\ last.outcome = "ok"
    /\ LocatedEvents # {}
    /\ Located1.end_time - Located1.start_time >= 2
    /\ last.slot > Located1.start_time
    /\ last.target # last.room

\* C11. Tolerant remove: remove_event(room, slot, name) on a cell of the grid
\* that is empty or holds an event of another name raises no error and leaves
\* every cell unchanged.
C11_TolerantRemove ==
    (last.op = "remove" /\ last.slot \in Slots /\ LocatedEvents = {})
    => (last.outcome = "ok" /\ calendar = before)

\* A remove_event made on a cell that holds an event of another name.
C11_Witness ==
    /\ last.op = "remove" /\ last.outcome = "ok"
    /\ last.slot \in Slots /\ LocatedEvents = {}
    /\ before[last.slot][last.room] # << >>

\* C12. Edit of a missing event: edit_event on a cell of the grid that is
\* empty or holds an event of another name raises the not-found error and
\* leaves every cell unchanged.
C12_EditMissing ==
    (last.op = "edit" /\ last.slot \in Slots /\ LocatedEvents = {})
    => (last.outcome = "NotFound" /\ calendar = before)

\* An edit_event made on a cell that holds an event of another name only.
C12_Witness ==
    /\ last.op = "edit" /\ last.outcome = "NotFound"
    /\ last.slot \in Slots /\ LocatedEvents = {}
    /\ before[last.slot][last.room] # << >>
    /\ calendar = before

\* The case of C13: the calendar before the call is as add_event(room, T, X, d)
\* leaves it (X = [T, T + d) in every slot of its range), edit_event is called
\* at T with a longer duration d' and nothing else, the slots of [T + d, T + d')
\* are empty, and the call returns.
C13_Case ==
    /\ last.op = "edit" /\ last.outcome = "ok"
    /\ LocatedEvents # {}
    /\ last.new_room = None /\ last.new_start = None /\ last.new_name = None
    /\ last.duration # None
    /\ LET x == Located1
       IN /\ x.start_time = last.slot
          /\ x.end_time > x.start_time
          /\ last.duration[1] > x.end_time - x.start_time
          /\ \A t \in Span(x) : t \in Slots /\ before[t][last.room] = << x >>
          /\ \A t \in (x.end_time .. (last.slot + last.duration[1] - 1)) \cap Slots :
                 before[t][last.room] = << >>

C14_EditDefaults ==
    (last.op = "edit" /\ last.outcome = "ok" /\ LocatedEvents # {}) =>
        LET x == Located1
            e == LastEvent
        IN /\ last.new_start = None => e.start_time = x.start_time
           /\ last.new_room = None => last.target = last.room
           /\ last.new_name = None => e.event_name = x.event_name
           /\ last.duration = None =>
                  e.end_time - e.start_time = x.end_time - x.start_time

\* C15. Copy defaults come from the source: copy_event called with a new room
\* and no new start returns, when the source's range is free in the new room,
\* having written the copy there at the source's own start; copy_event called
\* with no new room writes the copy into the source's room.
C15_CopyDefaults ==
    (last.op = "copy" /\ LocatedEvents # {}) =>
        LET x == Located1
            d == x.end_time - x.start_time
            ns == IF last.new_start = None THEN x.start_time
                  ELSE last.new_start[1]
        IN /\ (/\ last.new_start = None /\ last.new_room # None
               /\ \A t \in Span(x) :
                      t \in Slots /\ before[t][last.new_room[1]] = << >>)
              => /\ last.outcome = "ok"
                 /\ \A t \in Span(x) :
                        calendar[t][last.new_room[1]] = << Event(last.name, ns, ns + d) >>
           /\ (last.new_room = None /\ last.outcome = "ok")
              => \A t \in ns .. (ns + d - 1) :
                     /\ t \in Slots
                     /\ Holds(calendar, t, last.room, Event(last.name, ns, ns + d))

\* C16. Upper boundary is rejected: an add_event whose range includes the
\* slot at the grid's upper boundary (origin + horizon, slot MaxSlot) or a
\* later one raises an error and writes nothing.
C16_UpperBoundaryRejected ==
    (last.op = "add" /\ \E t \in AddSpan : t >= MaxSlot)
    => (last.outcome \in Raises /\ calendar = before)

\* C17. Zero-duration add is a no-op: add_event with duration 0 raises no
\* error and leaves every cell unchanged, whatever its start slot holds.
C17_ZeroDurationNoOp ==
    (last.op = "add" /\ last.duration = Some(0))
    => (last.outcome = "ok" /\ calendar = before)

\* An add_event of duration 0 at an occupied slot of the grid.
C17_Witness ==
    /\ last.op = "add" /\ last.duration = Some(0) /\ last.outcome = "ok"
    /\ last.slot \in Slots /\ before[last.slot][last.room] # << >>

\* The slots check_overlap(room, start, end) is asked about.
CheckSpan == last.slot .. last.new_start[1]

\* C18. check_overlap(room, start, end), start and end in the grid, scans the
\* inclusive range [start, end]: it reports a conflict exactly when some slot
\* s with start <= s <= end holds an event in that room (the method has no
\* name to ignore), it returns otherwise, and it leaves the grid unchanged.
C18_CheckOverlapInclusive ==
    (last.op = "check" /\ last.slot \in Slots /\ last.new_start[1] \in Slots)
    => /\ calendar = before
       /\ last.outcome \in {"ok", "Overlap"}
       /\ last.outcome = "Overlap"
              <=> \E s \in CheckSpan : before[s][last.room] # << >>

\* A conflict reported for an event that holds only the slot at end.
C18_Witness ==
    /\ last.op = "check" /\ last.outcome = "Overlap"
    /\ last.slot \in Slots /\ last.new_start[1] \in Slots
    /\ last.slot < last.new_start[1]
    /\ before[last.new_start[1]][last.room] # << >>
    /\ \A s \in CheckSpan \ {last.new_start[1]} : before[s][last.room] = << >>

\* C19. find_event(slot, room, name) is a pure lookup: on a slot of the grid
\* it returns the stored event if and only if the cell holds an event of the
\* given name, not-found otherwise, and the grid is unchanged.
C19_FindEventLookup ==
    (last.op = "find" /\ last.slot \in Slots)
    => /\ calendar = before
       /\ last.outcome = "ok"
       /\ last.event # None <=> LocatedEvents # {}
       /\ last.event # None => LastEvent \in LocatedEvents

\* find_event has returned an event looked up in a slot after its first.
C19_Witness ==
    /\ last.op = "find" /\ last.event # None
    /\ LastEvent \in LocatedEvents
    /\ LastEvent.start_time < last.slot

\* C20. Failed edit to an out-of-grid range is state-preserving: when
\* edit_event has located its event and the new range includes a slot outside
\* the grid, the call raises an error and every cell is as before the call.
C20_EditOutOfGridPreserves ==
    (/\ last.op = "edit"
     /\ LocatedEvents # {}
     /\ last.event # None
     /\ \E t \in Span(LastEvent) : t \notin Slots)
    => (last.outcome \in Raises /\ calendar = before)

\* C21. Acceptance condition of add: add_event(room, start, name, duration)
\* with duration > 0 returns if and only if every slot of
\* [start, start + duration) is in the grid and empty in that room, and raises
\* otherwise; what other rooms hold, and events that begin at start + duration
\* or end at start, play no part.
C21_AddAcceptance ==
    (last.op = "add" /\ last.duration[1] > 0)
    => /\ last.outcome \in {"ok"} \cup Raises
       /\ last.outcome = "ok"
              <=> \A t \in AddSpan :
                      t \in Slots /\ before[t][last.room] = << >>

\* An accepted add_event whose slots are occupied in another room and whose
\* range touches an event of its own room (one that begins at start + duration
\* or ends at start).
C21_Witness ==
    /\ last.op = "add" /\ last.duration[1] > 0 /\ last.outcome = "ok"
    /\ \E r \in Rooms \ {last.room} : before[last.slot][r] # << >>
    /\ \E s \in Slots : \E e \in EventsAt(before, s, last.room) :
           \/ e.start_time = last.slot + last.duration[1]
           \/ e.end_time = last.slot

\* C22. Edit touches only the edited event: a successful edit_event of E
\* leaves unchanged every cell that held, before the call, an event other than
\* E, an event of E's name included.
C22_EditTouchesOnlyE ==
    (last.op = "edit" /\ last.outcome = "ok" /\ LocatedEvents # {})
    => \A s \in Slots, r \in Rooms :
           (\E e \in EventsAt(before, s, r) : e # Located1)
           => calendar[s][r] = before[s][r]

\* C23. Every stored event covers its own cell: in every reachable state an
\* event E held by cell (s, room) has E.start <= s < E.end.
C23_EventCoversCell ==
    \A s \in Slots, r \in Rooms :
        \A e \in EventsAt(calendar, s, r) :
            e.start_time <= s /\ s < e.end_time

\* A call has written an event of two slots, which a cell holds in its last
\* slot, and the cell at the event's end is occupied.
C23_Witness ==
    /\ Wrote
    /\ LastEvent.end_time - LastEvent.start_time >= 2
    /\ Holds(calendar, LastEvent.end_time - 1, last.target, LastEvent)
    /\ LastEvent.end_time \in Slots
    /\ calendar[LastEvent.end_time][last.target] # << >>

\* C24. Frame of a successful add: an add_event(room, start, name, duration)
\* that returns changes no cell of another room and no cell of its room
\* outside [start, start + duration).
C24_AddFrame ==
    (last.op = "add" /\ last.outcome = "ok")
    => \A s \in Slots, r \in Rooms :
           (r # last.room \/ s \notin AddSpan)
           => calendar[s][r] = before[s][r]

\* A successful add_event beside occupied cells: one in another room at a slot
\* of its range, one in its own room outside the range.
C24_Witness ==
    /\ last.op = "add" /\ last.outcome = "ok" /\ last.duration[1] > 0
    /\ calendar # before
    /\ \E r \in Rooms \ {last.room} : \E s \in AddSpan : before[s][r] # << >>
    /\ \E s \in Slots \ AddSpan : before[s][last.room] # << >>

====
